---- MODULE Spec2Model ----
(***************************************************************************)
(* Model of the GCP managed server of the Outline server manager:          *)
(* GcpServer (install tracker: creation chain, guest-attribute polling,    *)
(* progress listener) and GcpHost (deletion of the static IP and of the    *)
(* instance).  One GcpServer object; the cloud API client, the creation    *)
(* future and the callers of waitOnInstall()/delete() are the environment. *)
(* Every action is one run of the code between two suspension points       *)
(* (an await of a cloud request, of a promise, or of sleep()).             *)
(***************************************************************************)
EXTENDS Integers, FiniteSets, Sequences, TLC

\* ---------------------------------------------------------------- bounds
NumWaiters == 2      \* waitOnInstall() calls made during one execution
NumDeletes == 1      \* delete() calls made during one execution
NumListeners == 1    \* distinct callbacks passed to setProgressListener()
NumVals == 2         \* distinct attribute values the guest may publish
MaxPolls == 2        \* the ghost poll counter saturates here

Waiters == 1..NumWaiters
Deleters == 1..NumDeletes
Listeners == 1..NumListeners
Vals == 1..NumVals

\* ------------------------------------------------------------ data types
InstallState ==
  {"UNKNOWN", "INSTANCE_CREATED", "IP_ALLOCATED", "BOOTED", "HAS_CERTIFICATE",
   "SUCCESS", "ERROR", "DELETING", "DELETED"}

\* Errors are (class, HTTP status) pairs; the status is 0 when the class has none.
NoError == [cls |-> "none", code |-> 0]
HttpError(c) == [cls |-> "HttpError", code |-> c]
NetworkError == [cls |-> "Error", code |-> 0]
ServerInstallFailedError == [cls |-> "ServerInstallFailedError", code |-> 0]
DeletedServerError == [cls |-> "DeletedServerError", code |-> 0]

\* What a request to the cloud API client can reject with.
ApiErrors == {HttpError(404), HttpError(500), NetworkError}
\* What a getGuestAttributes request can reject with: the client raises
\* not-found and other failures.
PollErrors == ApiErrors
\* What the creation future handed to the constructor can reject with.
CreationErrors == {HttpError(500), NetworkError, ServerInstallFailedError}

Ok == [cls |-> "ok", code |-> 0]
OperationError == [cls |-> "operationError", code |-> 0]

Pending == [status |-> "pending", err |-> NoError]
Resolved == [status |-> "resolved", err |-> NoError]
Rejected(e) == [status |-> "rejected", err |-> e]

\* Keys of the guest attributes the install script publishes under outline/.
Keys == {"apiUrl", "certSha256", "install-error", "outline"}

\* A getGuestAttributes answer: undefined, or the items of queryValue.
GuestAttributes ==
  {[defined |-> FALSE, keys |-> {}, val |-> 1]}
    \cup [defined : {TRUE}, keys : SUBSET Keys, val : Vals]

VARIABLES
  installState,      \* GcpServer.installState
  listener,          \* GcpServer.listener: 0 is null, else the callback
  delivered,         \* per callback, the last progress it was called with (-1: never)
  instanceCreation,  \* the creation future given to the constructor
  staticIpCheck,     \* the hasStaticIp promise started by the constructor
  chain,             \* position of the instanceReadiness chain
  instanceReadiness, \* GcpServer.instanceReadiness, shared with GcpHost
  wpc,               \* per waitOnInstall() call, its position
  wresult,           \* per waitOnInstall() call, how its promise settled
  dpc,               \* per delete() call, its position
  dresult,           \* per delete() call, how its promise settled
  trusted,           \* fingerprints passed to trustCertificate
  managementApiUrl,  \* value passed to setManagementApiUrl (0: not set)
  lastPoll,          \* event: the getGuestAttributes outcome the last step handled
  pollCount,         \* history: getGuestAttributes requests issued (saturating)
  staticIpDelete,    \* history: per delete() call, outcome of its deleteStaticIp
  instanceDelete,    \* history: per delete() call, outcome of its deleteInstance
  wrote,             \* history: per delete() call, the states it has written
  chainWrote,        \* history: the states the instanceReadiness chain has written
  staticIpOp,        \* history: outcome of the chain's createStaticIp (NoError: none)
  raced              \* history: the waitOnInstall() calls that were polling, the
                     \*          state not being terminal, when delete() was called

serverVars == <<installState, listener, delivered, trusted, managementApiUrl>>
chainVars == <<instanceCreation, staticIpCheck, chain, instanceReadiness>>
waitVars == <<wpc, wresult>>
deleteVars == <<dpc, dresult>>
histVars == <<lastPoll, pollCount, staticIpDelete, instanceDelete, wrote, chainWrote,
             staticIpOp, raced>>
\* The history variables a step leaves alone when it handles no poll outcome.
restHist == <<pollCount, staticIpDelete, instanceDelete, wrote, chainWrote,
             staticIpOp, raced>>
vars == <<serverVars, chainVars, waitVars, deleteVars, histVars>>

\* ------------------------------------------------------- pure functions
\* Faulty variant: the values of BOOTED and HAS_CERTIFICATE are exchanged.
installProgress_swapped(s) ==
  CASE s = "UNKNOWN" -> 5
    [] s = "INSTANCE_CREATED" -> 30
    [] s = "IP_ALLOCATED" -> 40
    [] s = "BOOTED" -> 800
    [] s = "HAS_CERTIFICATE" -> 200
    [] s = "SUCCESS" -> 1000
    [] OTHER -> 0

\* Progress is kept in thousandths: 0.005 is 5, 1.0 is 1000.
installProgress(s) ==
  CASE s = "UNKNOWN" -> 5
    [] s = "INSTANCE_CREATED" -> 30
    [] s = "IP_ALLOCATED" -> 40
    [] s = "BOOTED" -> 200
    [] s = "HAS_CERTIFICATE" -> 800
    [] s = "SUCCESS" -> 1000
    [] OTHER -> 0

\* Faulty variant: DELETING is counted among the completed states.
isInstallCompleted_withDeleting(s) ==
  s = "SUCCESS" \/ s = "ERROR" \/ s = "DELETING" \/ s = "DELETED"

\* Faulty variant: ERROR is left out of the completed states.
isInstallCompleted_noError(s) == s = "SUCCESS" \/ s = "DELETED"

isInstallCompleted(s) == s = "SUCCESS" \/ s = "ERROR" \/ s = "DELETED"

\* Faulty variant: any HTTP error counts as not-found.
is404_anyHttpError(e) == e.cls = "HttpError"

\* Faulty variant: the status is compared with the wrong code.
is404_wrongCode(e) == e.cls = "HttpError" /\ e.code = 400

is404(e) == e.cls = "HttpError" /\ e.code = 404

\* The Map built from an answer: no entries when any part of it is missing.
getOutlineGuestAttributes(ga) ==
  IF ga.defined THEN [k \in ga.keys |-> ga.val] ELSE [k \in {} |-> 1]

has(m, k) == k \in DOMAIN m

\* Faulty variant: certSha256 is tested before install-error.
pollDecision_certBeforeError(m) ==
  IF has(m, "apiUrl") /\ has(m, "certSha256") THEN [state |-> "SUCCESS", break |-> TRUE]
  ELSE IF has(m, "certSha256") THEN [state |-> "HAS_CERTIFICATE", break |-> FALSE]
  ELSE IF has(m, "install-error") THEN [state |-> "ERROR", break |-> TRUE]
  ELSE IF has(m, "outline") THEN [state |-> "BOOTED", break |-> FALSE]
  ELSE [state |-> "none", break |-> FALSE]

\* Faulty variant: certSha256 alone is tested before apiUrl with certSha256.
pollDecision_certBeforeSuccess(m) ==
  IF has(m, "certSha256") THEN [state |-> "HAS_CERTIFICATE", break |-> FALSE]
  ELSE IF has(m, "apiUrl") /\ has(m, "certSha256") THEN [state |-> "SUCCESS", break |-> TRUE]
  ELSE IF has(m, "install-error") THEN [state |-> "ERROR", break |-> TRUE]
  ELSE IF has(m, "outline") THEN [state |-> "BOOTED", break |-> FALSE]
  ELSE [state |-> "none", break |-> FALSE]

\* Faulty variant: install-error is tested before apiUrl with certSha256.
pollDecision_errorBeforeSuccess(m) ==
  IF has(m, "install-error") THEN [state |-> "ERROR", break |-> TRUE]
  ELSE IF has(m, "apiUrl") /\ has(m, "certSha256") THEN [state |-> "SUCCESS", break |-> TRUE]
  ELSE IF has(m, "certSha256") THEN [state |-> "HAS_CERTIFICATE", break |-> FALSE]
  ELSE IF has(m, "outline") THEN [state |-> "BOOTED", break |-> FALSE]
  ELSE [state |-> "none", break |-> FALSE]

\* Faulty variant: outline is tested before certSha256.
pollDecision_outlineBeforeCert(m) ==
  IF has(m, "apiUrl") /\ has(m, "certSha256") THEN [state |-> "SUCCESS", break |-> TRUE]
  ELSE IF has(m, "install-error") THEN [state |-> "ERROR", break |-> TRUE]
  ELSE IF has(m, "outline") THEN [state |-> "BOOTED", break |-> FALSE]
  ELSE IF has(m, "certSha256") THEN [state |-> "HAS_CERTIFICATE", break |-> FALSE]
  ELSE [state |-> "none", break |-> FALSE]

\* The branch of the if/else-if chain a poll result takes: the state it sets
\* ("none" when no branch matches) and whether the loop breaks.
pollDecision(m) ==
  IF has(m, "apiUrl") /\ has(m, "certSha256") THEN [state |-> "SUCCESS", break |-> TRUE]
  ELSE IF has(m, "install-error") THEN [state |-> "ERROR", break |-> TRUE]
  ELSE IF has(m, "certSha256") THEN [state |-> "HAS_CERTIFICATE", break |-> FALSE]
  ELSE IF has(m, "outline") THEN [state |-> "BOOTED", break |-> FALSE]
  ELSE [state |-> "none", break |-> FALSE]

\* Faulty variant: the test for DELETING and DELETED after the loop is missing.
afterLoop_noDeletedTest(s) ==
  IF s = "ERROR" THEN Rejected(ServerInstallFailedError)
  ELSE Resolved

\* The code after the loop, given the state the loop ended in.
afterLoop(s) ==
  IF s = "ERROR" THEN Rejected(ServerInstallFailedError)
  ELSE IF s = "DELETING" \/ s = "DELETED" THEN Rejected(DeletedServerError)
  ELSE Resolved

\* How the hasStaticIp promise settles for an outcome of getStaticIp.
hasStaticIp(o) ==
  IF o = Ok THEN "true"
  ELSE IF is404(o) THEN "false"
  ELSE "rejected"

\* ----------------------------------------------------------- state write
\* Faulty variant: the listener is called before the field is written.
setInstallState_notifyBeforeWrite(s) ==
  /\ installState' = s
  /\ delivered' = IF listener # 0
                    THEN [delivered EXCEPT ![listener] = installProgress(installState)]
                    ELSE delivered

\* setInstallState: write the field, then call the listener if there is one.
setInstallState(s) ==
  /\ installState' = s
  /\ delivered' = IF listener # 0
                    THEN [delivered EXCEPT ![listener] = installProgress(s)]
                    ELSE delivered

NoPoll == [kind |-> "none", w |-> 0, keys |-> {}, val |-> 0]

Init ==
  /\ installState = "UNKNOWN"
  /\ listener = 0
  /\ delivered = [l \in Listeners |-> -1]
  /\ instanceCreation = Pending
  /\ staticIpCheck = "pending"
  /\ chain = "awaitCreation"
  /\ instanceReadiness = Pending
  /\ wpc = [w \in Waiters |-> "idle"]
  /\ wresult = [w \in Waiters |-> Pending]
  /\ dpc = [d \in Deleters |-> "idle"]
  /\ dresult = [d \in Deleters |-> Pending]
  /\ trusted = {}
  /\ managementApiUrl = 0
  /\ lastPoll = NoPoll
  /\ pollCount = 0
  /\ staticIpDelete = [d \in Deleters |-> NoError]
  /\ instanceDelete = [d \in Deleters |-> NoError]
  /\ wrote = [d \in Deleters |-> {}]
  /\ chainWrote = <<>>
  /\ staticIpOp = NoError
  /\ raced = {}


noWrite == UNCHANGED <<installState, delivered>>

\* The step handles no getGuestAttributes outcome.
noPoll == lastPoll' = NoPoll

\* -------------------------------------------- the instanceReadiness chain
\* The getStaticIp request sent by the constructor is answered.
HasStaticIpResponds(o) ==
  /\ staticIpCheck = "pending"
  /\ staticIpCheck' = hasStaticIp(o)
  /\ UNCHANGED <<serverVars, instanceCreation, chain, instanceReadiness,
                 waitVars, deleteVars, restHist>>
  /\ noPoll

\* The creation future resolves: the then-callback runs up to `await hasStaticIp`.
CreationResolves ==
  /\ instanceCreation = Pending
  /\ instanceCreation' = Resolved
  /\ chainWrote' = Append(chainWrote, "INSTANCE_CREATED")
  /\ setInstallState("INSTANCE_CREATED")
  /\ chain' = "awaitHasStaticIp"
  /\ UNCHANGED <<listener, trusted, managementApiUrl, staticIpCheck, instanceReadiness,
                 waitVars, deleteVars, pollCount, staticIpDelete,
                 instanceDelete, wrote, raced, staticIpOp>>
  /\ noPoll

\* Faulty variant: the catch-callback throws a ServerInstallFailedError instead of e.
chainFails_wrapped(e) ==
  /\ setInstallState("ERROR")
  /\ chainWrote' = Append(chainWrote, "ERROR")
  /\ instanceReadiness' = Rejected(ServerInstallFailedError)
  /\ chain' = "done"

\* The chain fails with e: the catch-callback writes ERROR and rethrows e.
chainFails(e) ==
  /\ setInstallState("ERROR")
  /\ chainWrote' = Append(chainWrote, "ERROR")
  /\ instanceReadiness' = Rejected(e)
  /\ chain' = "done"

\* The chain reaches its end: IP_ALLOCATED is written and readiness resolves.
chainSucceeds ==
  /\ setInstallState("IP_ALLOCATED")
  /\ chainWrote' = Append(chainWrote, "IP_ALLOCATED")
  /\ instanceReadiness' = Resolved
  /\ chain' = "done"

\* The creation future rejects with e: the then-callback is skipped.
CreationRejects(e) ==
  /\ instanceCreation = Pending
  /\ instanceCreation' = Rejected(e)
  /\ chainFails(e)
  /\ UNCHANGED <<listener, trusted, managementApiUrl, staticIpCheck,
                 waitVars, deleteVars, pollCount, staticIpDelete,
                 instanceDelete, wrote, raced, staticIpOp>>
  /\ noPoll

\* `await hasStaticIp` completes inside the then-callback.
AwaitHasStaticIp ==
  /\ chain = "awaitHasStaticIp"
  /\ staticIpCheck # "pending"
  /\ CASE staticIpCheck = "true" -> chainSucceeds
       [] staticIpCheck = "false" ->
            \* promoteEphemeralIp starts: the getInstance request is sent
            /\ chain' = "getInstance"
            /\ UNCHANGED <<instanceReadiness, chainWrote>>
            /\ noWrite
       [] OTHER -> chainFails(ServerInstallFailedError)
  /\ UNCHANGED <<listener, trusted, managementApiUrl, instanceCreation, staticIpCheck,
                 waitVars, deleteVars, pollCount, staticIpDelete,
                 instanceDelete, wrote, raced, staticIpOp>>
  /\ noPoll

\* promoteEphemeralIp: getInstance is answered; on success createStaticIp is sent.
GetInstanceResponds(o) ==
  /\ chain = "getInstance"
  /\ IF o = Ok
       THEN /\ chain' = "createStaticIp"
            /\ UNCHANGED <<instanceReadiness, chainWrote>>
            /\ noWrite
       ELSE chainFails(o)
  /\ UNCHANGED <<listener, trusted, managementApiUrl, instanceCreation, staticIpCheck,
                 waitVars, deleteVars, pollCount, staticIpDelete,
                 instanceDelete, wrote, raced, staticIpOp>>
  /\ noPoll

\* Faulty variant: the error payload of the operation is not looked at.
CreateStaticIpResponds_ignoresPayload(o) ==
  /\ chain = "createStaticIp"
  /\ staticIpOp' = o
  /\ IF o = Ok \/ o = OperationError THEN chainSucceeds
     ELSE chainFails(o)
  /\ UNCHANGED <<listener, trusted, managementApiUrl, instanceCreation, staticIpCheck,
                 waitVars, deleteVars, pollCount, staticIpDelete,
                 instanceDelete, wrote, raced>>
  /\ noPoll

\* promoteEphemeralIp: createStaticIp is answered with an operation (with or
\* without error.errors) or is rejected.
CreateStaticIpResponds(o) ==
  /\ chain = "createStaticIp"
  /\ staticIpOp' = o
  /\ IF o = Ok THEN chainSucceeds
     ELSE IF o = OperationError THEN chainFails(ServerInstallFailedError)
     ELSE chainFails(o)
  /\ UNCHANGED <<listener, trusted, managementApiUrl, instanceCreation, staticIpCheck,
                 waitVars, deleteVars, pollCount, staticIpDelete,
                 instanceDelete, wrote, raced>>
  /\ noPoll

\* ---------------------------------------------------------- waitOnInstall
\* waitOnInstall() is called: it suspends at `await this.instanceReadiness`.
waitOnInstall(w) ==
  /\ wpc[w] = "idle"
  /\ \A v \in Waiters : v < w => wpc[v] # "idle"   \* calls are numbered in call order
  /\ wpc' = [wpc EXCEPT ![w] = "awaitReadiness"]
  /\ UNCHANGED <<serverVars, chainVars, wresult, deleteVars, restHist>>
  /\ noPoll

\* The while condition, then either the code after the loop or the next
\* getGuestAttributes request.
loopHead(w) ==
  IF isInstallCompleted(installState)
    THEN /\ wpc' = [wpc EXCEPT ![w] = "done"]
         /\ wresult' = [wresult EXCEPT ![w] = afterLoop(installState)]
         /\ UNCHANGED pollCount
    ELSE /\ wpc' = [wpc EXCEPT ![w] = "poll"]
         /\ pollCount' = IF pollCount < MaxPolls THEN pollCount + 1 ELSE pollCount
         /\ UNCHANGED wresult

\* Faulty variant: the loop is entered without awaiting readiness.
WaitReadinessSettled_noAwait(w) ==
  /\ wpc[w] = "awaitReadiness"
  /\ IF instanceReadiness.status = "rejected"
       THEN /\ wpc' = [wpc EXCEPT ![w] = "done"]
            /\ wresult' = [wresult EXCEPT ![w] = Rejected(instanceReadiness.err)]
            /\ UNCHANGED pollCount
       ELSE loopHead(w)
  /\ UNCHANGED <<serverVars, chainVars, deleteVars, staticIpDelete,
                 instanceDelete, wrote, chainWrote, staticIpOp, raced>>
  /\ noPoll

\* `await this.instanceReadiness` completes: throw, or enter the loop.
WaitReadinessSettled(w) ==
  /\ wpc[w] = "awaitReadiness"
  /\ instanceReadiness.status # "pending"
  /\ IF instanceReadiness.status = "rejected"
       THEN /\ wpc' = [wpc EXCEPT ![w] = "done"]
            /\ wresult' = [wresult EXCEPT ![w] = Rejected(instanceReadiness.err)]
            /\ UNCHANGED pollCount
       ELSE loopHead(w)
  /\ UNCHANGED <<serverVars, chainVars, deleteVars, staticIpDelete,
                 instanceDelete, wrote, chainWrote, staticIpOp, raced>>
  /\ noPoll

\* Faulty variant: SUCCESS is written without the call to trustCertificate.
PollResponds_trustSkipped(w, ga) ==
  LET m == getOutlineGuestAttributes(ga)
      d == pollDecision(m)
  IN /\ wpc[w] = "poll"
     /\ lastPoll' = [kind |-> IF ga.defined THEN "bag" ELSE "undefined", w |-> w,
                     keys |-> DOMAIN m, val |-> IF DOMAIN m = {} THEN 0 ELSE ga.val]
     /\ IF d.state = "SUCCESS"
          THEN /\ trusted' = trusted
               /\ managementApiUrl' = m["apiUrl"]
          ELSE UNCHANGED <<trusted, managementApiUrl>>
     /\ IF d.state = "none" THEN noWrite ELSE setInstallState(d.state)
     /\ IF d.break
          THEN /\ wpc' = [wpc EXCEPT ![w] = "done"]
               /\ wresult' = [wresult EXCEPT ![w] = afterLoop(installState')]
          ELSE /\ wpc' = [wpc EXCEPT ![w] = "sleep"]
               /\ UNCHANGED wresult
     /\ UNCHANGED <<listener, chainVars, deleteVars, pollCount, staticIpDelete,
                    instanceDelete, wrote, chainWrote, staticIpOp, raced>>

\* The getGuestAttributes request of call w is answered with ga: the rest of
\* the loop body runs, up to sleep() or out of the loop to the end of the call.
PollResponds(w, ga) ==
  LET m == getOutlineGuestAttributes(ga)
      d == pollDecision(m)
  IN /\ wpc[w] = "poll"
     /\ lastPoll' = [kind |-> IF ga.defined THEN "bag" ELSE "undefined", w |-> w,
                     keys |-> DOMAIN m, val |-> IF DOMAIN m = {} THEN 0 ELSE ga.val]
     /\ IF d.state = "SUCCESS"
          THEN /\ trusted' = trusted \cup {m["certSha256"]}
               /\ managementApiUrl' = m["apiUrl"]
          ELSE UNCHANGED <<trusted, managementApiUrl>>
     /\ IF d.state = "none" THEN noWrite ELSE setInstallState(d.state)
     /\ IF d.break
          THEN /\ wpc' = [wpc EXCEPT ![w] = "done"]
               /\ wresult' = [wresult EXCEPT ![w] = afterLoop(installState')]
          ELSE /\ wpc' = [wpc EXCEPT ![w] = "sleep"]
               /\ UNCHANGED wresult
     /\ UNCHANGED <<listener, chainVars, deleteVars, pollCount, staticIpDelete,
                    instanceDelete, wrote, chainWrote, staticIpOp, raced>>

\* The getGuestAttributes request of call w is rejected with e: nothing
\* catches it, so it leaves getOutlineGuestAttributes and waitOnInstall.
PollRejects(w, e) ==
  /\ wpc[w] = "poll"
  /\ lastPoll' = [kind |-> "rejected", w |-> w, keys |-> {}, val |-> 0]
  /\ wpc' = [wpc EXCEPT ![w] = "done"]
  /\ wresult' = [wresult EXCEPT ![w] = Rejected(e)]
  /\ UNCHANGED <<serverVars, chainVars, deleteVars, pollCount, staticIpDelete,
                 instanceDelete, wrote, chainWrote, staticIpOp, raced>>

\* sleep(GUEST_ATTRIBUTES_POLLING_INTERVAL_MS) completes.
SleepDone(w) ==
  /\ wpc[w] = "sleep"
  /\ loopHead(w)
  /\ UNCHANGED <<serverVars, chainVars, deleteVars, staticIpDelete,
                 instanceDelete, wrote, chainWrote, staticIpOp, raced>>
  /\ noPoll

\* ------------------------------------------------------- setProgressListener
setProgressListener(l) ==
  /\ listener' = l
  /\ delivered' = [delivered EXCEPT ![l] = installProgress(installState)]
  /\ UNCHANGED <<installState, trusted, managementApiUrl, chainVars, waitVars,
                 deleteVars, restHist>>
  /\ noPoll

\* ----------------------------------------------------------- GcpHost.delete
\* What waitForDelete does with the outcome of the deletion it awaits.
waitForDelete(o) ==
  IF o = Ok THEN "return"
  ELSE IF is404(o) THEN "return"
  ELSE "throw"

\* delete() is called: DELETING is written, then `await this.instanceReadiness`.
delete(d) ==
  /\ dpc[d] = "idle"
  /\ \A c \in Deleters : c < d => dpc[c] # "idle"   \* calls are numbered in call order
  /\ setInstallState("DELETING")
  /\ wrote' = [wrote EXCEPT ![d] = @ \cup {"DELETING"}]
  /\ raced' = IF installState \in {"SUCCESS", "ERROR", "DELETED"}
                THEN raced
                ELSE raced \cup {w \in Waiters : wpc[w] \in {"poll", "sleep"}}
  /\ dpc' = [dpc EXCEPT ![d] = "awaitReadiness"]
  /\ UNCHANGED <<listener, trusted, managementApiUrl, chainVars, waitVars, dresult,
                 pollCount, staticIpDelete, instanceDelete, chainWrote, staticIpOp>>
  /\ noPoll

\* Faulty variant: deleteStaticIp is sent without awaiting readiness.
DeleteReadinessSettled_noAwait(d) ==
  /\ dpc[d] = "awaitReadiness"
  /\ dpc' = [dpc EXCEPT ![d] = "deleteStaticIp"]
  /\ UNCHANGED <<serverVars, chainVars, waitVars, dresult, restHist>>
  /\ noPoll

\* Faulty variant: the await of readiness is not wrapped in try/catch.
DeleteReadinessSettled_noCatch(d) ==
  /\ dpc[d] = "awaitReadiness"
  /\ instanceReadiness.status # "pending"
  /\ IF instanceReadiness.status = "rejected"
       THEN /\ dpc' = [dpc EXCEPT ![d] = "done"]
            /\ dresult' = [dresult EXCEPT ![d] = Rejected(instanceReadiness.err)]
       ELSE /\ dpc' = [dpc EXCEPT ![d] = "deleteStaticIp"]
            /\ UNCHANGED dresult
  /\ UNCHANGED <<serverVars, chainVars, waitVars, restHist>>
  /\ noPoll

\* The await of readiness completes either way; deleteStaticIp is sent.
DeleteReadinessSettled(d) ==
  /\ dpc[d] = "awaitReadiness"
  /\ instanceReadiness.status # "pending"
  /\ dpc' = [dpc EXCEPT ![d] = "deleteStaticIp"]
  /\ UNCHANGED <<serverVars, chainVars, waitVars, dresult, restHist>>
  /\ noPoll

\* waitForDelete throws e: ERROR is written and delete() rejects with e.
deleteFails(d, e) ==
  /\ setInstallState("ERROR")
  /\ wrote' = [wrote EXCEPT ![d] = @ \cup {"ERROR"}]
  /\ dpc' = [dpc EXCEPT ![d] = "done"]
  /\ dresult' = [dresult EXCEPT ![d] = Rejected(e)]

\* deleteStaticIp is answered; when waitForDelete returns, deleteInstance is sent.
DeleteStaticIpResponds(d, o) ==
  /\ dpc[d] = "deleteStaticIp"
  /\ staticIpDelete' = [staticIpDelete EXCEPT ![d] = o]
  /\ IF waitForDelete(o) = "return"
       THEN /\ dpc' = [dpc EXCEPT ![d] = "deleteInstance"]
            /\ UNCHANGED <<dresult, wrote>>
            /\ noWrite
       ELSE deleteFails(d, o)
  /\ UNCHANGED <<listener, trusted, managementApiUrl, chainVars, waitVars,
                 pollCount, instanceDelete, chainWrote, staticIpOp, raced>>
  /\ noPoll

\* deleteInstance is answered; when waitForDelete returns, DELETED is written.
DeleteInstanceResponds(d, o) ==
  /\ dpc[d] = "deleteInstance"
  /\ instanceDelete' = [instanceDelete EXCEPT ![d] = o]
  /\ IF waitForDelete(o) = "return"
       THEN /\ setInstallState("DELETED")
            /\ wrote' = [wrote EXCEPT ![d] = @ \cup {"DELETED"}]
            /\ dpc' = [dpc EXCEPT ![d] = "done"]
            /\ dresult' = [dresult EXCEPT ![d] = Resolved]
       ELSE deleteFails(d, o)
  /\ UNCHANGED <<listener, trusted, managementApiUrl, chainVars, waitVars,
                 pollCount, staticIpDelete, chainWrote, staticIpOp, raced>>
  /\ noPoll

\* ------------------------------------------------------------ specification
Next ==
  \/ \E o \in {Ok} \cup ApiErrors : HasStaticIpResponds(o)
  \/ CreationResolves
  \/ \E e \in CreationErrors : CreationRejects(e)
  \/ AwaitHasStaticIp
  \/ \E o \in {Ok} \cup ApiErrors : GetInstanceResponds(o)
  \/ \E o \in {Ok, OperationError} \cup ApiErrors : CreateStaticIpResponds(o)
  \/ \E w \in Waiters : waitOnInstall(w)
  \/ \E w \in Waiters : WaitReadinessSettled(w)
  \/ \E w \in Waiters, ga \in GuestAttributes : PollResponds(w, ga)
  \/ \E w \in Waiters, e \in PollErrors : PollRejects(w, e)
  \/ \E w \in Waiters : SleepDone(w)
  \/ \E l \in Listeners : setProgressListener(l)
  \/ \E d \in Deleters : delete(d)
  \/ \E d \in Deleters : DeleteReadinessSettled(d)
  \/ \E d \in Deleters, o \in {Ok} \cup ApiErrors : DeleteStaticIpResponds(d, o)
  \/ \E d \in Deleters, o \in {Ok} \cup ApiErrors : DeleteInstanceResponds(d, o)

Spec == Init /\ [][Next]_vars

TypeOK ==
  /\ installState \in InstallState
  /\ listener \in {0} \cup Listeners
  /\ instanceReadiness.status \in {"pending", "resolved", "rejected"}
  /\ \A w \in Waiters : wpc[w] \in {"idle", "awaitReadiness", "poll", "sleep", "done"}
  /\ \A d \in Deleters : dpc[d] \in {"idle", "awaitReadiness", "deleteStaticIp", "deleteInstance", "done"}
  /\ pollCount \in 0..MaxPolls
\* ==================================================================== claims
Terminal == {"SUCCESS", "ERROR", "DELETED"}
Done404 == {Ok, HttpError(404)}   \* a deletion that succeeded or met not-found
Settled(r) == r.status # "pending"

\* ------------------------------------------------------------------------ C1
\* C1 (as claimed): a waitOnInstall() call that was in its polling loop when
\* delete() was called settles only by rejecting with DeletedServerError,
\* whatever the polls that follow return; it never resolves normally.
C1_RejectsDeletedWhenRaced ==
  \A w \in raced : Settled(wresult[w]) => wresult[w] = Rejected(DeletedServerError)

\* ------------------------------------------------------------------------ C2
\* C2 (as claimed): once installState is SUCCESS, ERROR or DELETED no later
\* step changes it.
C2_TerminalNeverChanges ==
  [][(installState \in Terminal => installState' = installState)]_vars

\* C2 (amended): while installState is SUCCESS, ERROR or DELETED no
\* getGuestAttributes request is sent and the creation chain does not write;
\* the only steps that change the state are steps of a delete() call and the
\* handling of the answer to a poll that was already in flight.
C2_TerminalChangedOnlyByDeleteOrPendingPoll ==
  [][(installState \in Terminal) =>
     ( /\ \A w \in Waiters : wpc'[w] = "poll" => wpc[w] = "poll"
       /\ chainWrote' = chainWrote
       /\ installState' # installState =>
            \/ \E d \in Deleters : dpc'[d] # dpc[d]
            \/ \E w \in Waiters : wpc[w] = "poll" /\ wpc'[w] # "poll" )]_vars

\* Witness: a terminal state is held while one call has finished and the
\* poll of another call is still in flight.
C2_Witness ==
  /\ installState \in Terminal
  /\ \E w \in Waiters : wpc[w] = "done"
  /\ \E w \in Waiters : wpc[w] = "poll"

\* ------------------------------------------------------------------------ C3
\* C3 (as claimed): when the creation future rejects, a waitOnInstall() call
\* never polls and settles only by rejecting with ServerInstallFailedError;
\* without delete() the state is ERROR, and it has never been
\* INSTANCE_CREATED or IP_ALLOCATED.
C3_CreationFailureIsInstallFailed ==
  instanceCreation.status = "rejected" =>
    /\ \A w \in Waiters :
         /\ wpc[w] \notin {"poll", "sleep"}
         /\ Settled(wresult[w]) => wresult[w] = Rejected(ServerInstallFailedError)
    /\ pollCount = 0
    /\ (\A d \in Deleters : dpc[d] = "idle") => installState = "ERROR"
    /\ chainWrote = <<"ERROR">>

\* C3 (amended): as claimed, except that waitOnInstall() rejects with the
\* very error the creation future rejected with.
C3_CreationFailurePropagates ==
  instanceCreation.status = "rejected" =>
    /\ \A w \in Waiters :
         /\ wpc[w] \notin {"poll", "sleep"}
         /\ Settled(wresult[w]) => wresult[w] = Rejected(instanceCreation.err)
    /\ pollCount = 0
    /\ (\A d \in Deleters : dpc[d] = "idle") => installState = "ERROR"
    /\ chainWrote = <<"ERROR">>

\* Witness: creation was rejected with an HTTP 500 and a waitOnInstall() call
\* has rejected with it, the state being ERROR.
C3_Witness ==
  /\ instanceCreation = Rejected(HttpError(500))
  /\ \E w \in Waiters : wresult[w] = Rejected(HttpError(500))
  /\ installState = "ERROR"

\* ------------------------------------------------------------------------ C4
\* C4: a deletion request of delete() that fails with anything but not-found
\* makes the call write ERROR and reject with that error; the call never
\* writes DELETED, and after a failed static-IP deletion it never sends the
\* instance deletion.
C4_DeleteErrorPropagates ==
  \A d \in Deleters :
    /\ staticIpDelete[d] \notin Done404 \cup {NoError} =>
         /\ dresult[d] = Rejected(staticIpDelete[d])
         /\ wrote[d] = {"DELETING", "ERROR"}
         /\ dpc[d] = "done" /\ instanceDelete[d] = NoError
    /\ instanceDelete[d] \notin Done404 \cup {NoError} =>
         /\ dresult[d] = Rejected(instanceDelete[d])
         /\ wrote[d] = {"DELETING", "ERROR"}
    /\ dresult[d].status = "rejected" =>
         dresult[d].err \in {staticIpDelete[d], instanceDelete[d]} \ (Done404 \cup {NoError})

\* Witness: the static-IP deletion failed with an HTTP 500 and delete() has
\* rejected with it.
C4_Witness ==
  \E d \in Deleters :
    staticIpDelete[d] = HttpError(500) /\ dresult[d] = Rejected(HttpError(500))

\* ------------------------------------------------------------------------ C5
\* C5: when both deletions end in success or not-found, delete() resolves and
\* installState is DELETED as it resolves; a not-found static-IP deletion is
\* followed by the instance deletion request.
C5_NotFoundIsSuccess ==
  [][\A d \in Deleters :
       /\ (staticIpDelete[d] = NoError /\ staticIpDelete'[d] \in Done404) =>
            dpc'[d] = "deleteInstance" /\ dresult'[d] = Pending
       /\ (instanceDelete[d] = NoError /\ instanceDelete'[d] \in Done404) =>
            /\ staticIpDelete'[d] \in Done404
            /\ dresult'[d] = Resolved
            /\ installState' = "DELETED"
       /\ (dresult[d] = Pending /\ dresult'[d] = Resolved) =>
            /\ instanceDelete[d] = NoError /\ instanceDelete'[d] \in Done404
            /\ wrote'[d] = {"DELETING", "DELETED"}]_vars

\* Witness: static-IP deletion met not-found, instance deletion succeeded,
\* delete() has resolved.
C5_Witness ==
  \E d \in Deleters :
    /\ staticIpDelete[d] = HttpError(404) /\ instanceDelete[d] = Ok
    /\ dresult[d] = Resolved

\* ------------------------------------------------------------------------ C6
\* C6: in a delete() call DELETING is written before anything is awaited or
\* requested, the static-IP deletion is requested only once readiness has
\* settled, the instance deletion only once the static-IP deletion has
\* completed, and DELETED is written only once the instance deletion has.
C6_DeleteOrder ==
  \A d \in Deleters :
    /\ dpc[d] # "idle" => "DELETING" \in wrote[d]
    /\ dpc[d] \in {"idle", "awaitReadiness"} =>
         staticIpDelete[d] = NoError /\ instanceDelete[d] = NoError
    /\ (dpc[d] \in {"deleteStaticIp", "deleteInstance", "done"}) =>
         Settled(instanceReadiness)
    /\ dpc[d] = "deleteStaticIp" => instanceDelete[d] = NoError
    /\ (dpc[d] = "deleteInstance" \/ instanceDelete[d] # NoError) =>
         staticIpDelete[d] \in Done404
    /\ "DELETED" \in wrote[d] => instanceDelete[d] \in Done404

\* Witness: a delete() call has gone through all of its steps.
C6_Witness == \E d \in Deleters : dresult[d] = Resolved /\ "DELETED" \in wrote[d]

\* ------------------------------------------------------------------------ C7
\* C7 (as claimed): waitOnInstall() settles only when readiness has rejected
\* or installState is SUCCESS, ERROR or DELETED at that moment; a failed poll
\* does not end it.
C7_SettlesOnlyWhenTerminal ==
  [][\A w \in Waiters :
       (wresult[w] = Pending /\ Settled(wresult'[w])) =>
          instanceReadiness'.status = "rejected" \/ installState' \in Terminal]_vars

\* ------------------------------------------------------------------------ C8
\* C8: a poll answer holding install-error and not both apiUrl and
\* certSha256 makes the state ERROR and ends the call, without another poll
\* or sleep, in a rejection with ServerInstallFailedError.
C8_InstallErrorStops ==
  (/\ lastPoll.kind = "bag"
   /\ "install-error" \in lastPoll.keys
   /\ ~({"apiUrl", "certSha256"} \subseteq lastPoll.keys)) =>
     /\ installState = "ERROR"
     /\ wpc[lastPoll.w] = "done"
     /\ wresult[lastPoll.w] = Rejected(ServerInstallFailedError)

\* Witness: the answer held install-error and certSha256, and the call has
\* rejected.
C8_Witness ==
  /\ lastPoll.kind = "bag"
  /\ lastPoll.keys = {"install-error", "certSha256", "outline"}
  /\ wresult[lastPoll.w] = Rejected(ServerInstallFailedError)

\* ------------------------------------------------------------------------ C9
\* The run C9 is about: creation resolves, the static IP is found or promoted
\* without error, delete() is never called, and the polls are answered, in
\* this order, with outline, then outline and certSha256, then these and
\* apiUrl.  The answer a poll may get follows from the last one given,
\* which installState reflects.
happyBags(s) ==
  CASE s = "IP_ALLOCATED" -> {{"outline"}}
    [] s = "BOOTED" -> {{"outline"}, {"outline", "certSha256"}}
    [] s = "HAS_CERTIFICATE" ->
         {{"outline", "certSha256"}, {"outline", "certSha256", "apiUrl"}}
    [] OTHER -> {{"outline", "certSha256", "apiUrl"}}

HappyPoll(w) ==
  \E ga \in GuestAttributes :
    ga.defined /\ ga.keys \in happyBags(installState) /\ PollResponds(w, ga)

\* An answer that moves on to the next bag of the sequence.
HappyAdvance(w) ==
  \E ga \in GuestAttributes :
    /\ ga.defined /\ ga.keys \in happyBags(installState)
    /\ pollDecision(getOutlineGuestAttributes(ga)).state # installState
    /\ PollResponds(w, ga)

NextLive ==
  \/ \E o \in {Ok, HttpError(404)} : HasStaticIpResponds(o)
  \/ CreationResolves
  \/ AwaitHasStaticIp
  \/ GetInstanceResponds(Ok)
  \/ CreateStaticIpResponds(Ok)
  \/ \E w \in Waiters : waitOnInstall(w)
  \/ \E w \in Waiters : WaitReadinessSettled(w)
  \/ \E w \in Waiters : HappyPoll(w)
  \/ \E w \in Waiters : SleepDone(w)
  \/ \E l \in Listeners : setProgressListener(l)

\* Every request is answered, every promise continuation and timer runs, and
\* the guest does move on from each bag of the sequence.
LiveFairness ==
  /\ WF_vars(\E o \in {Ok, HttpError(404)} : HasStaticIpResponds(o))
  /\ WF_vars(CreationResolves)
  /\ WF_vars(AwaitHasStaticIp)
  /\ WF_vars(GetInstanceResponds(Ok))
  /\ WF_vars(CreateStaticIpResponds(Ok))
  /\ \A w \in Waiters : WF_vars(WaitReadinessSettled(w))
  /\ \A w \in Waiters : WF_vars(HappyPoll(w))
  /\ \A w \in Waiters : WF_vars(SleepDone(w))
  /\ SF_vars(\E w \in Waiters : HappyAdvance(w))

LiveSpec == Init /\ [][NextLive]_vars /\ LiveFairness

\* C9: in such a run, once waitOnInstall() has been called installState
\* passes through BOOTED and HAS_CERTIFICATE, and in the end the call has
\* resolved normally, installState is SUCCESS for good and the last progress
\* given to the listener is 1.0.
C9_HappyPathSucceeds ==
  \A w \in Waiters :
    /\ (wpc[w] # "idle" /\ installState = "IP_ALLOCATED") ~> (installState = "BOOTED")
    /\ (wpc[w] # "idle" /\ installState = "BOOTED") ~> (installState = "HAS_CERTIFICATE")
    /\ (wpc[w] # "idle") ~>
         [](/\ wresult[w] = Resolved
            /\ installState = "SUCCESS"
            /\ listener # 0 => delivered[listener] = 1000)

\* Witness: the call has resolved in state SUCCESS and the listener was last
\* given 1.0.
C9_Witness ==
  /\ wresult[1] = Resolved
  /\ installState = "SUCCESS"
  /\ listener # 0 /\ delivered[listener] = 1000

\* ----------------------------------------------------------------------- C10
\* C10: a getGuestAttributes request is sent only after readiness has
\* resolved, that is after the creation future resolved and the chain wrote
\* IP_ALLOCATED; when readiness rejects no request is ever sent.
C10_NoPollBeforeReadiness ==
  /\ (pollCount > 0 \/ \E w \in Waiters : wpc[w] \in {"poll", "sleep"}) =>
       /\ instanceReadiness = Resolved
       /\ instanceCreation = Resolved
       /\ chainWrote = <<"INSTANCE_CREATED", "IP_ALLOCATED">>
  /\ instanceReadiness.status = "rejected" => pollCount = 0

\* Witness: a poll is in flight.
C10_Witness == pollCount > 0 /\ \E w \in Waiters : wpc[w] = "poll"

\* ----------------------------------------------------------------------- C11
\* Position in the order IP_ALLOCATED, BOOTED, HAS_CERTIFICATE, SUCCESS
\* (0 for a state outside of it).
Position(s) ==
  CASE s = "IP_ALLOCATED" -> 1
    [] s = "BOOTED" -> 2
    [] s = "HAS_CERTIFICATE" -> 3
    [] s = "SUCCESS" -> 4
    [] OTHER -> 0

MovesBack(s, t) == Position(s) > 0 /\ Position(t) > 0 /\ Position(t) < Position(s)

\* The step handles a bag for the only waitOnInstall() call made, delete()
\* not having been called.
LonePollStep ==
  /\ lastPoll'.kind = "bag" /\ lastPoll' # lastPoll
  /\ \A v \in Waiters : v # lastPoll'.w => wpc[v] = "idle"
  /\ \A d \in Deleters : dpc[d] = "idle"

\* C11 (as claimed): whatever bags the polls of one loop return, without
\* delete(), no poll moves installState back in the order, and a bag with
\* apiUrl and certSha256 gives SUCCESS.
C11_PollsNeverMoveBack ==
  [][LonePollStep =>
       /\ ~MovesBack(installState, installState')
       /\ {"apiUrl", "certSha256"} \subseteq lastPoll'.keys => installState' = "SUCCESS"]_vars

\* C11 (amended): the only move back is from HAS_CERTIFICATE to BOOTED, on a
\* bag that holds outline and neither certSha256 nor install-error; a bag
\* with apiUrl and certSha256 gives SUCCESS.
C11_OnlyMoveBackIsLostCertificate ==
  [][LonePollStep =>
       /\ MovesBack(installState, installState') =>
            /\ installState = "HAS_CERTIFICATE" /\ installState' = "BOOTED"
            /\ "outline" \in lastPoll'.keys
            /\ lastPoll'.keys \cap {"certSha256", "install-error"} = {}
       /\ {"apiUrl", "certSha256"} \subseteq lastPoll'.keys => installState' = "SUCCESS"]_vars

\* Witness: a bag with apiUrl and certSha256 gave SUCCESS after earlier polls
\* of the same, only, call.
C11_Witness ==
  /\ lastPoll.kind = "bag" /\ {"apiUrl", "certSha256"} \subseteq lastPoll.keys
  /\ installState = "SUCCESS" /\ pollCount >= 2
  /\ \A v \in Waiters : v # lastPoll.w => wpc[v] = "idle"
  /\ \A d \in Deleters : dpc[d] = "idle"

\* ----------------------------------------------------------------------- C12
\* C12: once a listener is registered, the last value the registered listener
\* was called with is the progress of the current installState: registration
\* delivers it at once and every state write delivers the new state's value
\* within the same step.
C12_ListenerSeesCurrentProgress ==
  listener # 0 => delivered[listener] = installProgress(installState)

\* Witness: a listener registered before the first poll has been told the
\* progress of HAS_CERTIFICATE, written by a poll.
C12_Witness ==
  /\ listener # 0
  /\ installState = "HAS_CERTIFICATE"
  /\ lastPoll.kind = "bag"
  /\ delivered[listener] = 800

\* ----------------------------------------------------------------------- C13
\* C13: installProgress() gives 0.005, 0.03, 0.04, 0.2, 0.8 and 1.0 for
\* UNKNOWN, INSTANCE_CREATED, IP_ALLOCATED, BOOTED, HAS_CERTIFICATE and SUCCESS
\* and 0 for ERROR, DELETING and DELETED (in thousandths below); it does not
\* decrease along that sequence of six states, and every value it gives, and
\* so every value a listener is called with, lies between 0 and 1.
C13_ProgressTable ==
  LET table == [s \in InstallState |->
                  CASE s = "UNKNOWN" -> 5
                    [] s = "INSTANCE_CREATED" -> 30
                    [] s = "IP_ALLOCATED" -> 40
                    [] s = "BOOTED" -> 200
                    [] s = "HAS_CERTIFICATE" -> 800
                    [] s = "SUCCESS" -> 1000
                    [] s \in {"ERROR", "DELETING", "DELETED"} -> 0]
      happy == <<"UNKNOWN", "INSTANCE_CREATED", "IP_ALLOCATED", "BOOTED",
                 "HAS_CERTIFICATE", "SUCCESS">>
  IN /\ installProgress(installState) = table[installState]
     /\ listener # 0 => delivered[listener] = table[installState]
     /\ \A i \in 1..5 : installProgress(happy[i]) <= installProgress(happy[i + 1])
     /\ \A s \in InstallState : installProgress(s) \in 0..1000
     /\ \A l \in Listeners : delivered[l] # -1 => delivered[l] \in 0..1000

\* Witness: the listener was called with 0 for DELETING after it had been
\* called with the progress of a state of the installation.
C13_Witness ==
  /\ listener # 0
  /\ installState = "DELETING"
  /\ chainWrote = <<"INSTANCE_CREATED", "IP_ALLOCATED">>
  /\ delivered[listener] = 0

\* ----------------------------------------------------------------------- C14
\* C14: isInstallCompleted() is true exactly when installState is SUCCESS,
\* ERROR or DELETED and false for the other six states; the loop condition,
\* which is its negation, sends a request only when it is false, ends the
\* call only when it is true, and the test itself writes nothing.
C14_CompletedIffTerminal ==
  [][( /\ \A s \in InstallState :
            isInstallCompleted(s) <=> s \in {"SUCCESS", "ERROR", "DELETED"}
       /\ \A w \in Waiters :
            (wpc[w] \in {"awaitReadiness", "sleep"} /\ wpc'[w] # wpc[w]
               /\ (wpc[w] = "sleep" \/ instanceReadiness = Resolved)) =>
              /\ wpc'[w] = "done" <=> installState \in {"SUCCESS", "ERROR", "DELETED"}
              /\ wpc'[w] = "poll" <=> installState \in
                   {"UNKNOWN", "INSTANCE_CREATED", "IP_ALLOCATED", "BOOTED",
                    "HAS_CERTIFICATE", "DELETING"}
              /\ installState' = installState
              /\ delivered' = delivered )]_vars

\* Witness: a call that was not in its loop when delete() was called has
\* found the installation not completed in state DELETING and sent a request.
C14_Witness ==
  /\ installState = "DELETING"
  /\ raced = {}
  /\ \E w \in Waiters : wpc[w] = "poll"

\* ----------------------------------------------------------------------- C15
\* C15: the step that handles the bag of one poll applies the first rule that
\* matches: apiUrl with certSha256 gives SUCCESS and ends polling; otherwise
\* install-error gives ERROR and ends polling; otherwise certSha256 gives
\* HAS_CERTIFICATE and polling goes on; otherwise outline gives BOOTED and
\* polling goes on; otherwise the state is left as it was and polling goes on.
C15_FirstMatchingRule ==
  [][(lastPoll'.kind = "bag" /\ lastPoll' # lastPoll) =>
       LET k == lastPoll'.keys
           w == lastPoll'.w
           stops == wpc'[w] = "done"
           goesOn == wpc'[w] = "sleep" /\ wresult'[w] = wresult[w]
       IN IF {"apiUrl", "certSha256"} \subseteq k
            THEN installState' = "SUCCESS" /\ stops
          ELSE IF "install-error" \in k
            THEN installState' = "ERROR" /\ stops
          ELSE IF "certSha256" \in k
            THEN installState' = "HAS_CERTIFICATE" /\ goesOn
          ELSE IF "outline" \in k
            THEN installState' = "BOOTED" /\ goesOn
          ELSE installState' = installState /\ delivered' = delivered /\ goesOn]_vars

\* Witness: a bag with apiUrl, certSha256 and install-error gave SUCCESS.
C15_Witness ==
  /\ lastPoll.kind = "bag"
  /\ lastPoll.keys = {"apiUrl", "certSha256", "install-error"}
  /\ installState = "SUCCESS"
  /\ wresult[lastPoll.w] = Resolved

\* Second case of C15: a bag with apiUrl alone left the state as it was.
C15_WitnessApiUrlAlone ==
  /\ lastPoll.kind = "bag"
  /\ lastPoll.keys = {"apiUrl"}
  /\ installState = "IP_ALLOCATED"
  /\ wpc[lastPoll.w] = "sleep"

\* ----------------------------------------------------------------------- C16
\* C16: when instanceReadiness has rejected, a delete() call does not reject
\* on that account: its await of readiness ends with the deleteStaticIp
\* request sent and the call unsettled; a deleteStaticIp that succeeds or
\* meets not-found is followed by the deleteInstance request; and when that
\* too succeeds or meets not-found the call resolves with the state DELETED.
C16_DeleteToleratesFailedSetup ==
  [][(instanceReadiness.status = "rejected") =>
       \A d \in Deleters :
         /\ (dpc[d] = "awaitReadiness" /\ dpc'[d] # dpc[d]) =>
              dpc'[d] = "deleteStaticIp" /\ dresult'[d] = Pending
         /\ (dpc[d] = "deleteStaticIp" /\ staticIpDelete'[d] \in Done404) =>
              dpc'[d] = "deleteInstance" /\ dresult'[d] = Pending
         /\ (dpc[d] = "deleteInstance" /\ instanceDelete'[d] \in Done404) =>
              dresult'[d] = Resolved /\ installState' = "DELETED"
         /\ (dresult[d] = Pending /\ dresult'[d].status = "rejected") =>
              dresult'[d].err \in {staticIpDelete'[d], instanceDelete'[d]} \ Done404]_vars

\* Witness: setup failed, and a delete() call then went through both
\* deletions and resolved with the state DELETED.
C16_Witness ==
  /\ instanceReadiness.status = "rejected"
  /\ chainWrote = <<"INSTANCE_CREATED", "ERROR">>
  /\ \E d \in Deleters :
       /\ staticIpDelete[d] = HttpError(404)
       /\ instanceDelete[d] = Ok
       /\ dresult[d] = Resolved
  /\ installState = "DELETED"

\* ----------------------------------------------------------------------- C17
\* C17 (as claimed): from the write of DELETING by a delete() call until that
\* call settles, installState is DELETING, DELETED or ERROR: neither the
\* creation chain nor a polling loop overwrites it with another state.
C17_DeletingNotOverwritten ==
  \A d \in Deleters :
    dpc[d] \in {"awaitReadiness", "deleteStaticIp", "deleteInstance"} =>
      installState \in {"DELETING", "DELETED", "ERROR"}

\* ----------------------------------------------------------------------- C18
\* C18: a waitOnInstall() call whose loop has ended (by its condition or by a
\* break) resolves only with the state SUCCESS; with the state ERROR it
\* rejects with ServerInstallFailedError, and with DELETING or DELETED it
\* rejects with DeletedServerError, whatever delete() calls and other
\* waitOnInstall() calls have done in between.
C18_SettlesByStateAtLoopExit ==
  [][\A w \in Waiters :
       (wresult[w] = Pending /\ wresult'[w] # Pending) =>
         /\ wresult'[w] = Resolved => installState' = "SUCCESS"
         /\ ((wpc[w] \in {"poll", "sleep"} /\ lastPoll'.kind # "rejected")
               \/ (wpc[w] = "awaitReadiness" /\ instanceReadiness = Resolved)) =>
              /\ installState' = "ERROR" =>
                   wresult'[w] = Rejected(ServerInstallFailedError)
              /\ installState' \in {"DELETING", "DELETED"} =>
                   wresult'[w] = Rejected(DeletedServerError)]_vars

\* Witness: a call left its loop in state DELETED, written by a delete() call,
\* and rejected with DeletedServerError, while another call had resolved.
C18_Witness ==
  /\ installState = "DELETED"
  /\ \E d \in Deleters : dresult[d] = Resolved
  /\ \E v, w \in Waiters :
       /\ wresult[v] = Resolved
       /\ wresult[w] = Rejected(DeletedServerError)

\* ----------------------------------------------------------------------- C19
\* C19: the getStaticIp request is in flight from construction on, so it can
\* be answered while the creation future is pending, and nothing else of the
\* chain happens before creation settles; the getInstance and createStaticIp
\* requests of the promotion are sent only after creation resolved and the
\* check answered not-found; the chain writes IP_ALLOCATED only if the check
\* found a static IP or createStaticIp returned an operation without error
\* payload; when the check failed otherwise, or the operation carries an
\* error payload, readiness rejects with ServerInstallFailedError and the
\* chain has written INSTANCE_CREATED and then ERROR, never IP_ALLOCATED.
C19_StaticIpPromotion ==
  LET chainWritten == {chainWrote[i] : i \in DOMAIN chainWrote}
  IN /\ instanceCreation = Pending =>
          chain = "awaitCreation" /\ chainWrote = <<>> /\ staticIpOp = NoError
     /\ (chain \in {"getInstance", "createStaticIp"} \/ staticIpOp # NoError) =>
          instanceCreation = Resolved /\ staticIpCheck = "false"
     /\ "IP_ALLOCATED" \in chainWritten =>
          \/ staticIpCheck = "true"
          \/ staticIpCheck = "false" /\ staticIpOp = Ok
     /\ (/\ instanceCreation = Resolved
         /\ chain = "done"
         /\ staticIpCheck = "rejected" \/ staticIpOp = OperationError) =>
          /\ instanceReadiness = Rejected(ServerInstallFailedError)
          /\ chainWrote = <<"INSTANCE_CREATED", "ERROR">>

\* Witness: the check answered not-found and createStaticIp returned an
\* operation with an error payload.
C19_Witness ==
  /\ staticIpCheck = "false"
  /\ staticIpOp = OperationError
  /\ instanceReadiness = Rejected(ServerInstallFailedError)
  /\ installState = "ERROR"

\* Second case of C19: the check was answered, with a failure other than
\* not-found, while the creation future was still pending.
C19_WitnessCheckBeforeCreation ==
  /\ staticIpCheck = "rejected"
  /\ instanceCreation = Pending

\* ----------------------------------------------------------------------- C20
\* C20: whenever installState is SUCCESS a management API URL is recorded and
\* the fingerprint published with it has been passed to trustCertificate; a
\* step that writes SUCCESS, or changes what is trusted or recorded, is the
\* handling of a bag with apiUrl and certSha256, and within that one step the
\* values of that bag are trusted and recorded and SUCCESS is written.
C20_SuccessImpliesTrusted ==
  [][( /\ installState' = "SUCCESS" =>
            managementApiUrl' \in Vals /\ managementApiUrl' \in trusted'
       /\ (\/ installState' = "SUCCESS" /\ installState # "SUCCESS"
           \/ managementApiUrl' # managementApiUrl
           \/ trusted' # trusted) =>
            /\ lastPoll'.kind = "bag"
            /\ {"apiUrl", "certSha256"} \subseteq lastPoll'.keys
            /\ installState' = "SUCCESS"
            /\ managementApiUrl' = lastPoll'.val
            /\ trusted' = trusted \cup {lastPoll'.val} )]_vars

\* Witness: a second poll wrote SUCCESS again, with the values of its own bag
\* recorded and trusted in place of those of the first.
C20_Witness ==
  /\ installState = "SUCCESS"
  /\ lastPoll.kind = "bag"
  /\ lastPoll.val = 2
  /\ managementApiUrl = 2
  /\ trusted = {1, 2}

====
